---------------------------- MODULE Spec2Model ----------------------------
(***************************************************************************)
(* A model of DNA_fragments.py: the ordinal cut-site substitution          *)
(* (nth_repl), the group packer (group_fragments), the aggressive merger   *)
(* (apply_aggressive_grouping), the rewriter (replace_cut_sites_and_pad),  *)
(* the pipeline that chains them, and the progress display of GrouperApp.  *)
(*                                                                         *)
(* Nucleotide sequences are TLA+ strings.  Indices into them are 0-based,  *)
(* as in Python; Slice(s, a, b) is Python's s[a:b].                        *)
(***************************************************************************)
EXTENDS Integers, Sequences, FiniteSets, Bags, TLC

VARIABLES
    \* nth_repl, called on its own
    nth_s,            \* the argument s
    nth_old,          \* the argument old
    nth_new,          \* the argument new
    nth_out,          \* the value returned (NoValue before the call)
    nth_pc,           \* "call" before nth_repl ran, "done" after, "idle" when unused
    \* the pipeline and the functions it chains
    pc,               \* the control position (see the actions)
    table,            \* the rows of the CSV file: [Name, Author, Sequence]
    readable,         \* whether read_csv can read the file
    aggressive,       \* pipeline(aggressive=...)
    progress,         \* the progress callback: "None", "recorder" or "update_progress"
    df,               \* group_fragments' df: rows [Name, Sequence, Cluster]
    df_large,         \* pipeline's df_large: rows [Name, Author, Sequence]
    max_length,       \* group_fragments(max_length=...)
    used_fragments,   \* group_fragments: the set of sequence strings marked used
    group_labels,     \* group_fragments: np.empty(n); <<>> is a slot never written
    group_counter,
    iter_counter,
    broke,            \* group_fragments: the pass loop was left through break
    out_group,        \* out["Group"] as group_fragments returned it
    df1,              \* pipeline's df1["Group"] after the optional aggressive merge
    grouped,          \* pipeline's grouped: rows [Group, Sequence, Name, Length]
    rw_idx,           \* replace_cut_sites_and_pad: the row the loop is at
    rw_log,           \* history: per rewritten row, [len_subst, padded]
    emitted,          \* history: the values this invocation passed to progress()
    \* GrouperApp
    csv_path,         \* self.csv_path (tk.StringVar)
    gui_aggressive,   \* self.aggressive (tk.BooleanVar)
    prog_var,         \* self.prog_var, in units of 1 / PctUnit percent
    run_button,       \* the state of self.run_button: "normal" or "disabled"
    worker,           \* the worker thread: "none", "spawned", "running",
                      \* "succeeded", "failed"
    runs,             \* how many times start launched a worker
    pending           \* the callbacks queued with after / after_idle (a bag)

nthVars  == <<nth_s, nth_old, nth_new, nth_out, nth_pc>>
packVars == <<df, max_length, used_fragments, group_labels, group_counter,
              iter_counter, broke, out_group, df1>>
pipeVars == <<table, readable, aggressive, progress, df_large, grouped, rw_idx, rw_log>>
cbVars   == <<emitted, pending>>
guiVars  == <<csv_path, gui_aggressive, prog_var, run_button, worker, runs>>
vars == <<nthVars, pc, packVars, pipeVars, cbVars, guiVars>>

NoValue == "<none>"

Min(a, b) == IF a < b THEN a ELSE b
Max(a, b) == IF a < b THEN b ELSE a

(***************************************************************************)
(* Program constants.                                                      *)
(***************************************************************************)
BsmBI     == "CGTCTC"
BsmBI_rev == "GAGACG"
BsaI      == "GGTCTC"
BsaI_rev  == "GAGACC"
BbsI      == "GAAGACT"
BbsI_rev  == "AGTCTTC"
BspMI     == "ACCTGCTTA"
BspMI_rev == "TAAGCAGGT"
NUCL       == <<"A", "T", "C", "G">>
MIN_LENGTH == 301
MAX_LENGTH == 499

(***************************************************************************)
(* Bounds of the model.                                                    *)
(***************************************************************************)
MaxFrags   == 4     \* rows of a table handed to group_fragments
MaxGarbage == 1     \* an unwritten label reads as one of -1 .. MaxGarbage
MaxChunks  == 3     \* pieces an nth_repl argument is assembled from
MaxRows    == 3     \* rows of a CSV file handed to pipeline
MaxCluster == 1     \* the clustering yields ids in 0 .. MaxCluster
MaxPad     == 8     \* paddings of up to MaxPad nucleotides are enumerated in full
MaxRuns    == 1     \* runs the user starts in one session of GrouperApp

(***************************************************************************)
(* Python's str operations, as the code uses them.                         *)
(***************************************************************************)
\* s[a:b] for 0 <= a, b (b is clipped to len(s); empty when a >= b).
Slice(s, a, b) == SubSeq(s, a + 1, Min(b, Len(s)))

\* s[a:]
SliceFrom(s, a) == SubSeq(s, a + 1, Len(s))

\* Whether old matches in s at the 0-based position p.
MatchesAt(s, old, p) ==
    /\ p >= 0
    /\ p + Len(old) <= Len(s)
    /\ Slice(s, p, p + Len(old)) = old

\* The least element of a non-empty set of integers.
SetMin(S) == CHOOSE x \in S : \A y \in S : x <= y

\* s.find(old, start): the lowest position >= start at which old matches, or -1.
Find(s, old, start) ==
    LET hits == {p \in start .. (Len(s) - Len(old)) : MatchesAt(s, old, p)}
    IN  IF hits = {} THEN -1 ELSE SetMin(hits)

\* len(s.split(old)) - 1: the matches of old in s counted left to right without
\* overlap (each match resumes the scan after its end).
RECURSIVE SplitCount(_, _, _)
SplitCount(s, old, start) ==
    LET p == Find(s, old, start)
    IN  IF p = -1 THEN 0 ELSE 1 + SplitCount(s, old, p + Len(old))

\* s.replace(old, new): every match of old, left to right without overlap.
RECURSIVE Replace(_, _, _)
Replace(s, old, new) ==
    LET p == Find(s, old, 0)
    IN  IF p = -1 THEN s
        ELSE Slice(s, 0, p) \o new \o Replace(SliceFrom(s, p + Len(old)), old, new)

\* The string of n copies of the character c.
RECURSIVE Rep(_, _)
Rep(c, n) ==
    IF n <= 0 THEN ""
    ELSE IF n = 1 THEN c
    ELSE Rep(c, n \div 2) \o Rep(c, n - n \div 2)

\* The concatenation of a sequence of strings.
RECURSIVE Join(_)
Join(parts) == IF parts = <<>> THEN "" ELSE Head(parts) \o Join(Tail(parts))

(***************************************************************************)
(* nth_repl                                                                *)
(***************************************************************************)
\* The while loop of nth_repl: <<find, i>> when it exits.
RECURSIVE NthLoop(_, _, _, _, _)
NthLoop(s, old, n, find, i) ==
    IF find # -1 /\ i # n
    THEN NthLoop(s, old, n, Find(s, old, find + 1), i + 1)
    ELSE <<find, i>>

nth_repl(s, old, new, n) ==
    LET find0 == Find(s, old, 0)
        i0    == IF find0 # -1 THEN 1 ELSE 0
        r     == NthLoop(s, old, n, find0, i0)
        find  == r[1]
        i     == r[2]
    IN  IF i = n /\ i <= SplitCount(s, old, 0)
        THEN Slice(s, 0, find) \o new \o SliceFrom(s, find + Len(old))
        ELSE s

(***************************************************************************)
(* nth_repl called on its own with n = 2, as replace_cut_sites_and_pad     *)
(* calls it.                                                               *)
(***************************************************************************)
NthCall ==
    /\ nth_pc = "call"
    /\ nth_out' = nth_repl(nth_s, nth_old, nth_new, 2)
    /\ nth_pc' = "done"
    /\ UNCHANGED <<nth_s, nth_old, nth_new, pc, packVars, pipeVars, cbVars, guiVars>>

(***************************************************************************)
(* group_fragments                                                         *)
(***************************************************************************)
\* A percentage p/q, kept exact as the integer p * PctUnit / q.
RECURSIVE Factorial(_)
Factorial(n) == IF n <= 1 THEN 1 ELSE n * Factorial(n - 1)

PctUnit == Factorial(Max(MaxFrags, MaxRows))

Pct(p) == p * PctUnit

\* The callback update_progress queues for a value: its closure _set.
SetCallback(percent) == [kind |-> "set", percent |-> percent]

\* The queue after update_progress was called with each of values in turn
\* (line 293: self.after(0, _set)).
RECURSIVE Queued(_, _)
Queued(queue, values) ==
    IF values = <<>> THEN queue
    ELSE Queued(queue (+) SetToBag({SetCallback(Head(values))}), Tail(values))

\* The calls progress(v) for v in values, in order, when a callback was passed
\* (`if progress:`): the history records them, update_progress queues them.
Emit(values) ==
    /\ emitted' = IF progress # "None" THEN emitted \o values ELSE emitted
    /\ pending' = IF progress = "update_progress" THEN Queued(pending, values) ELSE pending

\* One iteration of `for idx, row in df.iterrows()` (lines 80-97); acc holds the
\* locals group, total_length, clusters and the function's used_fragments,
\* group_labels, group_counter.
ScanRow(row, idx, maxlen, acc) ==
    LET frag        == row.Sequence
        cluster     == row.Cluster
        frag_length == Len(frag)
    IN  IF frag \in acc.used_fragments THEN acc
        ELSE IF /\ Len(acc.group) < 3
                /\ acc.total_length + frag_length <= maxlen
                /\ cluster \notin acc.clusters
        THEN [acc EXCEPT !.group = Append(@, frag),
                         !.clusters = @ \cup {cluster},
                         !.total_length = @ + frag_length,
                         !.used_fragments = @ \cup {frag},
                         !.group_labels[idx] = <<acc.group_counter>>]
        ELSE IF Len(acc.group) = 0 /\ frag_length >= 500
        THEN [acc EXCEPT !.group_labels[idx] = <<acc.group_counter>>,
                         !.group_counter = @ + 1,
                         !.used_fragments = @ \cup {frag}]
        ELSE acc

RECURSIVE ScanRows(_, _, _, _)
ScanRows(rows, idx, maxlen, acc) ==
    IF idx > Len(rows) THEN acc
    ELSE ScanRows(rows, idx + 1, maxlen, ScanRow(rows[idx], idx, maxlen, acc))

\* The locals a pass starts with (lines 76-78).
PassStart(used, labels, counter) ==
    [group |-> <<>>, total_length |-> 0, clusters |-> {},
     used_fragments |-> used, group_labels |-> labels, group_counter |-> counter]

\* A break that fires one pass later than line 102 does.
SafetyBreakLate(iters, n) == iters > n * 3 + 1

\* The break of line 102, tested after iter_counter was incremented.
SafetyBreak(iters, n) == iters > n * 3

\* The state group_fragments starts its loop in (lines 69-73).
GroupEnter(rows, maxlen) ==
    /\ df' = rows
    /\ max_length' = maxlen
    /\ used_fragments' = {}
    /\ group_labels' = [i \in 1 .. Len(rows) |-> <<>>]
    /\ group_counter' = 0
    /\ iter_counter' = 0
    /\ broke' = FALSE
    /\ out_group' = <<>>

\* One execution of the body of `while len(used_fragments) < len(fragments)`.
GroupPass ==
    /\ pc = "group"
    /\ ~broke
    /\ Cardinality(used_fragments) < Len(df)
    /\ LET r == ScanRows(df, 1, max_length,
                          PassStart(used_fragments, group_labels, group_counter))
       IN  /\ used_fragments' = r.used_fragments
           /\ group_labels' = r.group_labels
           /\ group_counter' = r.group_counter + 1
           /\ iter_counter' = iter_counter + 1
           /\ Emit(<<Pct(90) + (Cardinality(r.used_fragments) * Pct(5)) \div Len(df)>>)
           /\ broke' = SafetyBreak(iter_counter + 1, Len(df))
    /\ UNCHANGED <<nthVars, guiVars, pc, df, max_length, out_group, df1, pipeVars>>

\* The values a slot of np.empty that was never written may hold once cast to int.
Garbage == -1 .. MaxGarbage

\* Lines 104-106: the loop is over; out["Group"] = group_labels.astype(int).
GroupReturn ==
    /\ pc = "group"
    /\ broke \/ Cardinality(used_fragments) >= Len(df)
    /\ \E junk \in [{i \in 1 .. Len(df) : group_labels[i] = <<>>} -> Garbage] :
          out_group' = [i \in 1 .. Len(df) |->
                          IF group_labels[i] = <<>> THEN junk[i] ELSE group_labels[i][1]]
    /\ pc' = "grouped"
    /\ UNCHANGED <<nthVars, guiVars, df, max_length, used_fragments, group_labels,
                   group_counter, iter_counter, broke, df1, pipeVars, cbVars>>

(***************************************************************************)
(* apply_aggressive_grouping                                               *)
(***************************************************************************)
\* The elements of a finite set of integers in increasing order.
RECURSIVE SortedSeq(_)
SortedSeq(S) ==
    IF S = {} THEN <<>>
    ELSE LET m == SetMin(S) IN <<m>> \o SortedSeq(S \ {m})

\* The rows of a Group column that carry the id g.
Members(labels, g) == {i \in DOMAIN labels : labels[i] = g}

GroupIds(labels) == {labels[i] : i \in DOMAIN labels}

\* Line 111: groupby iterates its keys in increasing order.
SingletonGroups(labels) ==
    SortedSeq({g \in GroupIds(labels) : Cardinality(Members(labels, g)) = 1})

\* Lines 112-116; i is 0-based as enumerate gives it, `new` is the local new.
RECURSIVE AggressiveLoop(_, _, _, _)
AggressiveLoop(labels, singles, i, new) ==
    IF i >= Len(singles) THEN labels
    ELSE LET gid == singles[i + 1]
         IN  IF i % 3 = 0
             THEN AggressiveLoop(labels, singles, i + 1, gid)
             ELSE AggressiveLoop(
                      [k \in DOMAIN labels |-> IF labels[k] = gid THEN new ELSE labels[k]],
                      singles, i + 1, new)

apply_aggressive_grouping(labels) ==
    AggressiveLoop(labels, SingletonGroups(labels), 0, 0)

\* Lines 174-175 of pipeline; a direct caller of group_fragments may do the same.
Aggressive ==
    /\ pc = "grouped"
    /\ aggressive
    /\ df1' = apply_aggressive_grouping(out_group)
    /\ pc' = "aggregate"
    /\ UNCHANGED <<nthVars, guiVars, df, max_length, used_fragments, group_labels,
                   group_counter, iter_counter, broke, out_group, pipeVars, cbVars>>

NotAggressive ==
    /\ pc = "grouped"
    /\ ~aggressive
    /\ df1' = out_group
    /\ pc' = "aggregate"
    /\ UNCHANGED <<nthVars, guiVars, df, max_length, used_fragments, group_labels,
                   group_counter, iter_counter, broke, out_group, pipeVars, cbVars>>

(***************************************************************************)
(* replace_cut_sites_and_pad                                               *)
(***************************************************************************)
\* Lines 124-127: the four ordinal substitutions.
Substitute(sequence) ==
    LET s1 == nth_repl(sequence, BsmBI, BbsI, 2)
        s2 == nth_repl(s1, BsmBI_rev, BbsI_rev, 2)
        s3 == nth_repl(s2, BsmBI, BspMI, 2)
    IN  nth_repl(s3, BsmBI_rev, BspMI_rev, 2)

\* Lines 130-133: the motifs in the order the scrub visits them.
CutSites == <<BsmBI, BsaI, BbsI, BspMI, BsmBI_rev, BsaI_rev, BbsI_rev, BspMI_rev>>

Neutral == "ATCCGATGGTC"

\* Lines 130-134: padding = padding.replace(cut, Neutral) for each cut in turn.
RECURSIVE Scrub(_, _)
Scrub(padding, k) ==
    IF k > Len(CutSites) THEN padding
    ELSE Scrub(Replace(padding, CutSites[k], Neutral), k + 1)

\* Whether line 128 sends a sequence of length n through the padding branch.
NeedsPadding(n) == n < 300

\* All strings of k nucleotides.
RECURSIVE AllStrings(_)
AllStrings(k) ==
    IF k <= 0 THEN {""}
    ELSE {s \o NUCL[i] : s \in AllStrings(k - 1), i \in DOMAIN NUCL}

\* The outcomes of random.choices(NUCL, k=k) the model draws from: every string
\* when k <= MaxPad, and for a longer padding the four single-nucleotide runs.
Fillers(k) ==
    IF k <= MaxPad THEN AllStrings(k)
    ELSE {Rep(NUCL[i], k) : i \in DOMAIN NUCL}

\* One iteration of the loop of lines 122-137, on row rw_idx.
RewriteRow ==
    /\ pc = "rewrite"
    /\ rw_idx <= Len(grouped)
    /\ \E new_seq \in {Substitute(grouped[rw_idx].Sequence)} :
          IF NeedsPadding(Len(new_seq))
          THEN \E filler \in Fillers(MIN_LENGTH - Len(new_seq)) :
                 \E stored \in {new_seq \o Scrub(filler, 1)} :
                    /\ grouped' = [grouped EXCEPT ![rw_idx].Sequence = stored,
                                                  ![rw_idx].Length = Len(stored)]
                    /\ rw_log' = Append(rw_log, [len_subst |-> Len(new_seq),
                                                 padded |-> TRUE])
          ELSE /\ grouped' = [grouped EXCEPT ![rw_idx].Sequence = new_seq,
                                             ![rw_idx].Length = Len(new_seq)]
               /\ rw_log' = Append(rw_log, [len_subst |-> Len(new_seq),
                                            padded |-> FALSE])
    /\ rw_idx' = rw_idx + 1
    /\ UNCHANGED <<nthVars, guiVars, pc, packVars, table, readable, aggressive, progress,
                   df_large, cbVars>>

\* Line 138: the loop is over; pipeline goes on to write the file.
RewriteReturn ==
    /\ pc = "rewrite"
    /\ rw_idx > Len(grouped)
    /\ pc' = "write"
    /\ UNCHANGED <<nthVars, guiVars, packVars, pipeVars, cbVars>>

(***************************************************************************)
(* pipeline                                                                *)
(***************************************************************************)
LowerCase == "abcdefghijklmnopqrstuvwxyz"
UpperCase == "ABCDEFGHIJKLMNOPQRSTUVWXYZ"

\* str.upper() of one character.
UpperChar(c) ==
    LET hit == {i \in 1 .. Len(LowerCase) : SubSeq(LowerCase, i, i) = c}
    IN  IF hit = {} THEN c ELSE LET i == CHOOSE x \in hit : TRUE IN SubSeq(UpperCase, i, i)

\* str.upper()
RECURSIVE Upper(_)
Upper(s) ==
    IF Len(s) = 0 THEN ""
    ELSE IF Len(s) = 1 THEN UpperChar(s)
    ELSE LET h == Len(s) \div 2
         IN  Upper(SubSeq(s, 1, h)) \o Upper(SubSeq(s, h + 1, Len(s)))

\* Line 153: every column is upper-cased.
UpperRow(r) == [Name |-> Upper(r.Name), Author |-> Upper(r.Author), Sequence |-> Upper(r.Sequence)]

\* Line 154.
IsLarge(r) == Len(r.Sequence) >= 400

\* Line 156.
IsPackable(r) == Len(r.Sequence) < MAX_LENGTH

\* Lines 147-156: progress(0), read_csv, progress(2), upper-casing, the split
\* into df_large and df.
PipeLoad ==
    /\ pc = "load"
    /\ readable
    /\ Emit(<<Pct(0), Pct(2)>>)
    /\ LET upper == [i \in DOMAIN table |-> UpperRow(table[i])]
       IN  /\ df_large' = SelectSeq(upper, IsLarge)
           /\ df' = SelectSeq(upper, IsPackable)
    /\ pc' = "distance"
    /\ UNCHANGED <<nthVars, guiVars, max_length, used_fragments, group_labels,
                   group_counter, iter_counter, broke, out_group, df1,
                   table, readable, aggressive, progress, grouped, rw_idx, rw_log>>

\* Lines 147-149 on a file read_csv cannot read: progress(0), then it raises.
PipeLoadFails ==
    /\ pc = "load"
    /\ ~readable
    /\ Emit(<<Pct(0)>>)
    /\ pc' = "failed"
    /\ UNCHANGED <<nthVars, guiVars, packVars, pipeVars>>

\* The values lines 53-59 pass to progress for n fragments.
DistanceProgress(n) ==
    LET step == Max(1, n \div 100)
        at(i) == (i * Pct(80)) \div n + Pct(2)
        RECURSIVE upto(_)
        upto(i) == IF i >= n THEN <<>>
                   ELSE (IF i % step = 0 THEN <<at(i)>> ELSE <<>>) \o upto(i + 1)
    IN  upto(0) \o <<Pct(90)>>

\* Line 160: compute_distance_matrix.  The matrix feeds the clustering only.
PipeDistance ==
    /\ pc = "distance"
    /\ Emit(DistanceProgress(Len(df)))
    /\ pc' = "cluster"
    /\ UNCHANGED <<nthVars, guiVars, packVars, pipeVars>>

ClusterIds == 0 .. MaxCluster

\* Lines 161-173: the clustering tags every row with a cluster id, progress(90),
\* and group_fragments is entered with the default max_length.
PipeCluster ==
    /\ pc = "cluster"
    /\ Len(df) > 0
    /\ \E labels \in [DOMAIN df -> ClusterIds] :
          GroupEnter([i \in DOMAIN df |->
                         [Name |-> df[i].Name, Sequence |-> df[i].Sequence,
                          Cluster |-> labels[i]]],
                     MAX_LENGTH)
    /\ Emit(<<Pct(90)>>)
    /\ pc' = "group"
    /\ UNCHANGED <<nthVars, guiVars, df1, pipeVars>>

\* Line 164 on an empty similarity matrix: fit raises, pipeline is abandoned.
PipeClusterFails ==
    /\ pc = "cluster"
    /\ Len(df) = 0
    /\ pc' = "failed"
    /\ UNCHANGED <<nthVars, guiVars, packVars, pipeVars, cbVars>>

\* Lines 177-180: one row per group id, in increasing id order; the members'
\* sequences joined and their names listed, in row order.
GroupedRow(rows, labels, g) ==
    LET members == SortedSeq(Members(labels, g))
        seq     == Join([k \in DOMAIN members |-> rows[members[k]].Sequence])
    IN  [Group |-> g,
         Sequence |-> seq,
         Name |-> [k \in DOMAIN members |-> rows[members[k]].Name],
         Length |-> Len(seq)]

GroupBy(rows, labels) ==
    LET ids == SortedSeq(GroupIds(labels))
    IN  [k \in DOMAIN ids |-> GroupedRow(rows, labels, ids[k])]

\* The greatest element of a non-empty set of integers.
SetMax(S) == CHOOSE x \in S : \A y \in S : y <= x

\* Lines 183-200: every row of df_large is appended under a fresh group id.
AddLarge(packed, large) ==
    LET max_group == IF packed = <<>> THEN 0
                     ELSE SetMax({packed[k].Group : k \in DOMAIN packed})
    IN  packed \o [j \in DOMAIN large |->
                     [Group |-> max_group + j,
                      Sequence |-> large[j].Sequence,
                      Name |-> <<large[j].Name>>,
                      Length |-> Len(large[j].Sequence)]]

\* Lines 177-202, up to the call of replace_cut_sites_and_pad.
PipeAggregate ==
    /\ pc = "aggregate"
    /\ grouped' = AddLarge(GroupBy(df, df1), df_large)
    /\ rw_idx' = 1
    /\ rw_log' = <<>>
    /\ pc' = "rewrite"
    /\ UNCHANGED <<nthVars, guiVars, packVars, table, readable, aggressive, progress, df_large,
                   cbVars>>

\* Lines 203-210: progress(98), the file is written, progress(100).
PipeWrite ==
    /\ pc = "write"
    /\ Emit(<<Pct(98), Pct(100)>>)
    /\ pc' = "done"
    /\ UNCHANGED <<nthVars, guiVars, packVars, pipeVars>>

(***************************************************************************)
(* Inputs.                                                                 *)
(***************************************************************************)
\* All sequences of at most n elements of S.
RECURSIVE SeqsUpTo(_, _)
SeqsUpTo(S, n) ==
    IF n = 0 THEN {<<>>}
    ELSE LET shorter == SeqsUpTo(S, n - 1)
         IN  shorter \cup {Append(q, x) : q \in {r \in shorter : Len(r) = n - 1}, x \in S}

\* Arguments of nth_repl: strings assembled from the two target motifs, from
\* their tails (which overlap a preceding motif by one character) and from
\* single nucleotides.
NthChunks == {BsmBI, "GTCTC", BsmBI_rev, "AGACG", "A", "T"}

NthInputs == {Join(parts) : parts \in SeqsUpTo(NthChunks, MaxChunks)}

\* The (old, new) pairs of the four calls of lines 124-127.
NthSteps == {<<BsmBI, BbsI>>, <<BsmBI_rev, BbsI_rev>>, <<BsmBI, BspMI>>, <<BsmBI_rev, BspMI_rev>>}

\* Rows handed to group_fragments, as <<Sequence, Cluster>>: four short
\* sequences of four clusters (a fourth candidate for a group of three), a short
\* one that shares a cluster with another and a sequence with another row, two
\* whose lengths sum to MAX_LENGTH exactly, and two oversized ones.  A table may
\* hold the same row, and so the same sequence string, more than once.
PackRowKinds ==
    {<<"A", 0>>, <<"C", 1>>, <<"G", 2>>, <<"T", 3>>, <<"C", 0>>,
     <<Rep("G", 200), 1>>, <<Rep("T", 299), 2>>,
     <<Rep("A", 500), 0>>, <<Rep("C", 600), 3>>}

PackRows == {[Name |-> "F", Sequence |-> k[1], Cluster |-> k[2]] : k \in PackRowKinds}

PackTables == SeqsUpTo(PackRows, MaxFrags)

\* Sequences of a CSV file: a short one (padded after grouping), one that with
\* the short one fills a group to MAX_LENGTH, one in [400, MAX_LENGTH), one of
\* length MAX_LENGTH, and one of length 500 that holds BsmBI twice.  Some are in
\* lower case in the file.
PipeSequences ==
    {Rep("a", 100), Rep("C", 399), Rep("g", 450), Rep("T", 499),
     Rep("a", 488) \o "cgtctc" \o BsmBI}

RowNames == <<"f1", "f2", "f3", "f4", "f5", "f6">>

\* The tables of at most MaxRows rows; row i is named RowNames[i].
PipeTables ==
    {[i \in DOMAIN q |-> [Name |-> RowNames[i], Author |-> "x", Sequence |-> q[i]]] :
        q \in SeqsUpTo(PipeSequences, MaxRows)}

\* Sequences of a frame handed to replace_cut_sites_and_pad: lengths around
\* the padding threshold, without a motif and with BsmBI or BsmBI_rev twice.
PadSequences ==
    {Rep("A", n) : n \in (MIN_LENGTH - MaxPad) .. (MIN_LENGTH + 1)}
    \cup {Rep("A", 283) \o BsmBI \o BsmBI, Rep("A", 284) \o BsmBI_rev \o "T" \o BsmBI_rev}

(***************************************************************************)
(* GrouperApp: the UI thread and the worker thread.                        *)
(***************************************************************************)
\* The files the user can point csv_path at: a table of one fragment and a
\* table with a header only.  Any other path cannot be read.
GuiFiles ==
    [p \in {"one.csv", "empty.csv"} |->
        IF p = "one.csv"
        THEN <<[Name |-> "f1", Author |-> "x", Sequence |-> Rep("a", 300)]>>
        ELSE <<>>]

GuiPaths == {"", "one.csv", "empty.csv", "missing.csv"}

\* browse (lines 256-262), or typing into the entry bound to csv_path.
EditPath ==
    /\ \E p \in GuiPaths : p # csv_path /\ csv_path' = p
    /\ UNCHANGED <<nthVars, pc, packVars, pipeVars, cbVars,
                   gui_aggressive, prog_var, run_button, worker, runs>>

\* The Checkbutton bound to self.aggressive (lines 237-241).
ToggleAggressive ==
    /\ gui_aggressive' = ~gui_aggressive
    /\ UNCHANGED <<nthVars, pc, packVars, pipeVars, cbVars,
                   csv_path, prog_var, run_button, worker, runs>>

\* start (lines 264-271), the command of the enabled Run button, with a path set.
Start ==
    /\ run_button = "normal"
    /\ csv_path # ""
    /\ runs < MaxRuns
    /\ prog_var' = Pct(0)
    /\ run_button' = "disabled"
    /\ worker' = "spawned"
    /\ runs' = runs + 1
    /\ UNCHANGED <<nthVars, pc, packVars, pipeVars, cbVars, csv_path, gui_aggressive>>

\* Lines 298-302: the worker thread reads the two Tk variables and enters
\* pipeline with progress=self.update_progress.
WorkerBegin ==
    /\ worker = "spawned"
    /\ worker' = "running"
    /\ readable' = (csv_path \in DOMAIN GuiFiles)
    /\ table' = IF csv_path \in DOMAIN GuiFiles THEN GuiFiles[csv_path] ELSE <<>>
    /\ aggressive' = gui_aggressive
    /\ progress' = "update_progress"
    /\ pc' = "load"
    /\ emitted' = <<>>
    /\ UNCHANGED <<nthVars, packVars, df_large, grouped, rw_idx, rw_log, pending,
                   csv_path, gui_aggressive, prog_var, run_button, runs>>

\* Lines 303-307 and 311-312: pipeline returned; _show is queued with
\* after_idle and the re-enabling of the button with after.
WorkerReturn ==
    /\ worker = "running"
    /\ pc = "done"
    /\ pending' = pending (+) SetToBag({[kind |-> "show", percent |-> Pct(100)]})
                           (+) SetToBag({[kind |-> "enable", percent |-> Pct(0)]})
    /\ worker' = "succeeded"
    /\ pc' = "idle"
    /\ UNCHANGED <<nthVars, packVars, pipeVars, emitted,
                   csv_path, gui_aggressive, prog_var, run_button, runs>>

\* Lines 308-312: pipeline raised; the error box and the re-enabling of the
\* button are queued with after.
WorkerExcept ==
    /\ worker = "running"
    /\ pc = "failed"
    /\ pending' = pending (+) SetToBag({[kind |-> "error", percent |-> Pct(0)]})
                           (+) SetToBag({[kind |-> "enable", percent |-> Pct(0)]})
    /\ worker' = "failed"
    /\ pc' = "idle"
    /\ UNCHANGED <<nthVars, packVars, pipeVars, emitted,
                   csv_path, gui_aggressive, prog_var, run_button, runs>>

\* A later update that would lower the bar, accepted all the same.
DisplayedAlways(percent, current) == percent

\* Lines 276-279 of _set: the value the bar shows after an update.
Displayed(percent, current) == IF percent < current THEN current ELSE percent

\* The queue without one copy of the callback cb.
Dequeue(queue, cb) == queue (-) SetToBag({cb})

\* The UI thread runs one queued callback, whichever it is: _set (lines
\* 275-292), _show (304-306), the error box (310) or the re-enabling (312).
RunCallback ==
    /\ \E cb \in BagToSet(pending) :
          /\ pending' = Dequeue(pending, cb)
          /\ prog_var' = CASE cb.kind = "set"  -> Displayed(cb.percent, prog_var)
                            [] cb.kind = "show" -> Pct(100)
                            [] OTHER            -> prog_var
          /\ run_button' = IF cb.kind = "enable" THEN "normal" ELSE run_button
    /\ UNCHANGED <<nthVars, pc, packVars, pipeVars, emitted,
                   csv_path, gui_aggressive, worker, runs>>

(***************************************************************************)
(* Initial states: each specification starts at one function's entry.      *)
(***************************************************************************)
NthIdle ==
    /\ nth_s = "" /\ nth_old = "" /\ nth_new = "" /\ nth_out = NoValue /\ nth_pc = "idle"

PackIdle ==
    /\ df = <<>> /\ max_length = MAX_LENGTH /\ used_fragments = {}
    /\ group_labels = <<>> /\ group_counter = 0 /\ iter_counter = 0
    /\ broke = FALSE /\ out_group = <<>> /\ df1 = <<>>

PipeIdle ==
    /\ table = <<>> /\ readable = TRUE /\ aggressive = FALSE /\ progress = "None"
    /\ df_large = <<>> /\ grouped = <<>> /\ rw_idx = 0 /\ rw_log = <<>>

\* GrouperApp after __init__ (lines 226-228, 246): no path, the box unchecked,
\* the bar at 0, the button enabled, nothing queued.
GuiIdle ==
    /\ csv_path = "" /\ gui_aggressive = FALSE /\ prog_var = Pct(0)
    /\ run_button = "normal" /\ worker = "none" /\ runs = 0
    /\ pending = EmptyBag

\* nth_repl(s, old, new, 2) is about to be called.
InitNth ==
    /\ nth_s \in NthInputs
    /\ \E st \in NthSteps : nth_old = st[1] /\ nth_new = st[2]
    /\ nth_out = NoValue
    /\ nth_pc = "call"
    /\ pc = "idle"
    /\ PackIdle /\ PipeIdle /\ GuiIdle /\ emitted = <<>>

\* group_fragments(df, progress=...) has run lines 69-73; its caller hands the
\* result to apply_aggressive_grouping.
InitGroup ==
    /\ NthIdle /\ GuiIdle
    /\ pc = "group"
    /\ df \in PackTables
    /\ max_length = MAX_LENGTH
    /\ used_fragments = {}
    /\ group_labels = [i \in 1 .. Len(df) |-> <<>>]
    /\ group_counter = 0 /\ iter_counter = 0 /\ broke = FALSE
    /\ out_group = <<>> /\ df1 = <<>>
    /\ table = <<>> /\ readable = TRUE /\ aggressive = TRUE /\ progress = "recorder"
    /\ df_large = <<>> /\ grouped = <<>> /\ rw_idx = 0 /\ rw_log = <<>>
    /\ emitted = <<>>

\* pipeline(csv_path, aggressive=..., progress=...) is about to run.
InitPipe ==
    /\ NthIdle /\ PackIdle /\ GuiIdle
    /\ pc = "load"
    /\ table \in PipeTables
    /\ readable \in BOOLEAN
    /\ aggressive \in BOOLEAN
    /\ progress = "recorder"
    /\ df_large = <<>> /\ grouped = <<>> /\ rw_idx = 0 /\ rw_log = <<>>
    /\ emitted = <<>>

\* replace_cut_sites_and_pad(grouped_df) is about to run on a one-row frame.
InitPad ==
    /\ NthIdle /\ PackIdle /\ GuiIdle
    /\ pc = "rewrite"
    /\ table = <<>> /\ readable = TRUE /\ aggressive = FALSE /\ progress = "None"
    /\ df_large = <<>>
    /\ \E s \in PadSequences :
          grouped = <<[Group |-> 0, Sequence |-> s, Name |-> <<"F1">>, Length |-> Len(s)]>>
    /\ rw_idx = 1 /\ rw_log = <<>>
    /\ emitted = <<>>

\* GrouperApp() was constructed and mainloop runs.
InitGui ==
    /\ NthIdle /\ PackIdle /\ PipeIdle /\ GuiIdle
    /\ pc = "idle"
    /\ emitted = <<>>

NextNth == NthCall

NextGroup == GroupPass \/ GroupReturn \/ Aggressive

NextPad == RewriteRow \/ RewriteReturn

NextPipe ==
    \/ PipeLoad \/ PipeLoadFails \/ PipeDistance \/ PipeCluster \/ PipeClusterFails
    \/ GroupPass \/ GroupReturn \/ Aggressive \/ NotAggressive
    \/ PipeAggregate \/ RewriteRow \/ RewriteReturn \/ PipeWrite

NextGui ==
    \/ EditPath \/ ToggleAggressive \/ Start \/ RunCallback
    \/ WorkerBegin \/ WorkerReturn \/ WorkerExcept
    \/ PipeLoad \/ PipeLoadFails \/ PipeDistance \/ PipeCluster \/ PipeClusterFails
    \/ GroupPass \/ GroupReturn \/ Aggressive \/ NotAggressive
    \/ PipeAggregate \/ RewriteRow \/ RewriteReturn \/ PipeWrite

SpecNth == InitNth /\ [][NextNth]_vars

SpecGroup == InitGroup /\ [][NextGroup]_vars

SpecPad == InitPad /\ [][NextPad]_vars

SpecPipe == InitPipe /\ [][NextPipe]_vars

SpecGui == InitGui /\ [][NextGui]_vars

(***************************************************************************)
(* Properties of group_fragments and apply_aggressive_grouping, checked    *)
(* under SpecGroup.                                                        *)
(***************************************************************************)
\* The sum of len(df[i].Sequence) over the rows i of M.
RECURSIVE TotalLength(_, _)
TotalLength(rows, M) ==
    IF M = {} THEN 0
    ELSE LET i == CHOOSE x \in M : TRUE
         IN  Len(rows[i].Sequence) + TotalLength(rows, M \ {i})

\* The group ids group_fragments wrote into group_labels.
AssignedIds == {group_labels[i][1] : i \in {k \in DOMAIN group_labels : group_labels[k] # <<>>}}

RegularGroup(M) ==
    /\ Cardinality(M) <= 3
    /\ TotalLength(df, M) <= 499
    /\ \A i, j \in M : i # j => df[i].Cluster # df[j].Cluster

OversizedSingleton(M) ==
    /\ Cardinality(M) = 1
    /\ \A i \in M : Len(df[i].Sequence) >= 500

\* C1: after group_fragments ran with max_length 499, every group id it assigned
\* labels, in the returned Group column, either a regular group (at most 3 rows,
\* total length <= 499, pairwise distinct clusters) or an oversized singleton
\* (exactly one row, of length >= 500, sharing its id with no other row).
C1_GroupsWellFormed ==
    (pc = "grouped" /\ max_length = MAX_LENGTH) =>
        \A g \in AssignedIds :
            LET M == Members(out_group, g)
            IN  RegularGroup(M) \/ OversizedSingleton(M)

\* C2: on N >= 1 packable fragments (each of length <= 499) and max_length 499,
\* group_fragments leaves its loop because every fragment is used, not through
\* the safety break, and every fragment has been assigned a group id.
C2_AllUsedNoBreak ==
    (/\ pc = "grouped"
     /\ max_length = MAX_LENGTH
     /\ Len(df) >= 1
     /\ \A i \in DOMAIN df : Len(df[i].Sequence) <= 499)
    => (/\ ~broke
        /\ Cardinality(used_fragments) >= Len(df)
        /\ \A i \in DOMAIN df : group_labels[i] # <<>>)

\* C10, as stated: the body of the pass loop executes at most 3 * N times.
C10_AtMost3N == iter_counter <= 3 * Len(df)

\* C10, amended: the body of the pass loop executes at most 3 * N + 1 times, and
\* once it has executed more than 3 * N times the loop has been left by break.
C10_AtMost3NPlus1 ==
    /\ iter_counter <= 3 * Len(df) + 1
    /\ (iter_counter > 3 * Len(df) => broke)

\* C10 witness: group_fragments returned after 3 * N + 1 passes over N >= 1 rows.
C10_Witness ==
    /\ pc = "grouped"
    /\ Len(df) >= 1
    /\ iter_counter = 3 * Len(df) + 1

\* The ids of the groups of a Group column that have exactly one row.
SingletonIds(labels) == {g \in GroupIds(labels) : Cardinality(Members(labels, g)) = 1}

\* The number of singleton ids below g: g is s_i for i = RankOf(labels, g).
RankOf(labels, g) == Cardinality({h \in SingletonIds(labels) : h < g})

\* C6: with s_0 < s_1 < ... the singleton ids before apply_aggressive_grouping,
\* the row of s_i ends with id s_(3 * floor(i / 3)); rows of non-singleton groups
\* keep their id; the number of distinct ids does not increase; no resulting
\* group has more than 3 rows.
C6_AggressiveBatches ==
    (pc = "aggregate" /\ aggressive) =>
        /\ \A k \in DOMAIN out_group :
              LET g == out_group[k]
              IN  IF g \in SingletonIds(out_group)
                  THEN \E h \in SingletonIds(out_group) :
                          /\ RankOf(out_group, h) = 3 * (RankOf(out_group, g) \div 3)
                          /\ df1[k] = h
                  ELSE df1[k] = g
        /\ Cardinality(GroupIds(df1)) <= Cardinality(GroupIds(out_group))
        /\ \A g \in GroupIds(df1) : Cardinality(Members(df1, g)) <= 3

(***************************************************************************)
(* Properties of nth_repl, checked under SpecNth.                          *)
(***************************************************************************)
\* Every start position at which old matches in s.
Occurrences(s, old) == {p \in 0 .. (Len(s) - Len(old)) : MatchesAt(s, old, p)}

\* C5: nth_repl(s, old, new, 2) replaces the second occurrence of old and nothing
\* else: with at least two start positions at which old matches and p the second
\* of them the result is s[:p] + new + s[p+len(old):]; with fewer than two the
\* result is s.
C5_SecondOccurrence ==
    nth_pc = "done" =>
        LET occ == Occurrences(nth_s, nth_old)
        IN  IF Cardinality(occ) >= 2
            THEN LET p == SetMin(occ \ {SetMin(occ)})
                 IN  nth_out = Slice(nth_s, 0, p) \o nth_new
                                 \o SliceFrom(nth_s, p + Len(nth_old))
            ELSE nth_out = nth_s

(***************************************************************************)
(* Properties of pipeline, checked under SpecPipe.                         *)
(***************************************************************************)
\* The rows of the output table whose Name list holds name.
RowsNaming(name) ==
    {k \in DOMAIN grouped : \E j \in DOMAIN grouped[k].Name : grouped[k].Name[j] = name}

\* C3: when pipeline has returned, no input fragment is both packed and
\* re-attached as a long fragment: the (upper-cased) name of every input row
\* appears in exactly one row of the output table.
C3_EachNameOnce ==
    pc = "done" =>
        \A i \in DOMAIN table : Cardinality(RowsNaming(Upper(table[i].Name))) = 1

\* The long input rows, in file order.
LongInputs == SelectSeq(table, IsLarge)

\* C7: when pipeline has returned, the output row appended for a long input
\* fragment (length >= 400) holds that fragment's upper-cased sequence.
C7_LongUnmodified ==
    pc = "done" =>
        LET base == Len(grouped) - Len(LongInputs)
        IN  \A j \in DOMAIN LongInputs :
               grouped[base + j].Sequence = Upper(LongInputs[j].Sequence)

(***************************************************************************)
(* Properties of replace_cut_sites_and_pad, checked under SpecPad.         *)
(***************************************************************************)
\* The part of the stored sequence of row i that the padding branch appended.
Appended(i) == SliceFrom(grouped[i].Sequence, rw_log[i].len_subst)

\* C4: whenever padding was appended, the appended region as stored holds no
\* match of any of the 8 motifs.
C4_PaddingMotifFree ==
    \A i \in DOMAIN rw_log :
        rw_log[i].padded =>
            \A k \in DOMAIN CutSites : Find(Appended(i), CutSites[k], 0) = -1

\* C8: a sequence whose length L after the substitutions is < 300 is stored with
\* length exactly 301, and so is its Length column; one with L >= 300 keeps L.
C8_PaddedLength ==
    \A i \in DOMAIN rw_log :
        IF rw_log[i].len_subst < 300
        THEN Len(grouped[i].Sequence) = 301 /\ grouped[i].Length = 301
        ELSE Len(grouped[i].Sequence) = rw_log[i].len_subst

(***************************************************************************)
(* Properties of the progress display, checked under SpecGui.              *)
(***************************************************************************)
\* The values passed to progress so far are non-decreasing and within [0, 100].
EmittedInOrder ==
    /\ \A i \in DOMAIN emitted : Pct(0) <= emitted[i] /\ emitted[i] <= Pct(100)
    /\ \A i, j \in DOMAIN emitted : i < j => emitted[i] <= emitted[j]

\* C9: within one run (no new start in between) prog_var never decreases,
\* whatever order the queued callbacks run in; the values pipeline emitted are
\* non-decreasing in [0, 100]; when it has returned the last value emitted is
\* 100, and once the callbacks of a successful run have all run the bar shows 100.
C9_ProgressMonotone ==
    /\ [][runs' = runs => prog_var' >= prog_var]_vars
    /\ [](EmittedInOrder)
    /\ [](pc = "done" => emitted # <<>> /\ emitted[Len(emitted)] = Pct(100))
    /\ []((worker = "succeeded" /\ pending = EmptyBag) => prog_var = Pct(100))

\* C9 witness: a run succeeded, all its callbacks were executed, the button is
\* enabled again and the bar shows 100.
C9_Witness ==
    /\ worker = "succeeded"
    /\ pending = EmptyBag
    /\ run_button = "normal"
    /\ emitted # <<>>
    /\ prog_var = Pct(100)

=============================================================================
